---- MODULE Spec2Model ----
(***************************************************************************)
(* Model of the runtime audio engine of doukutsu-rs (src/sound/mod.rs):    *)
(* the SoundManager facade on the control thread, the command channel, and *)
(* the playback closure that runs inside the audio callback.               *)
(*                                                                         *)
(* The two renderers (OrgPlaybackEngine, OggPlaybackEngine) and the tone   *)
(* synthesizer (PixTonePlayback) live in modules whose code is not part of *)
(* the files modelled here; they are modelled from their interface:        *)
(* render_to advances a position and writes that many samples, get_state / *)
(* set_state capture and reinstall the position, rewind resets it.         *)
(***************************************************************************)
EXTENDS Integers, Sequences, FiniteSets, TLC

(***************************************************************************)
(* Bounds of the model.                                                    *)
(***************************************************************************)
\* buf_size (mod.rs:248) in the model: bgm_buf holds 2 * BufSize entries.
BufSize == 1
\* Number of Sound Manager calls in one behaviour.
MaxCalls == 3
\* Largest number of frames one audio callback is asked for.
MaxFrames == 1
\* Number of songs that have a name in the music table.
NumSongs == 2
\* The smallest non-zero song id of the model.
FirstSong == 5
\* Largest number of files that exist at once in SpecResolve.
MaxFiles == 4
\* Largest number of Sound Manager calls in SpecChan.
MaxChanCalls == 4
\* Number of button bits of a KeyState in the model (a u16 in the code).
KeyBits == 2
\* Largest number of children of a combined controller.
MaxChildren == 2

(***************************************************************************)
(* Program constants.                                                      *)
(***************************************************************************)
FillOrg == 32896
FillOgg == 32768
MidScale == 32768
ClampLo == -32767
ClampHi == 32767

BufLen == BufSize * 2
\* Songs loop (org_engine.loops = usize::MAX); a song is SongLen entries long.
SongLen == BufLen + 1
\* config.sample_rate, chosen so that sample_rate * 10 / 1000 = BufSize.
SampleRate == BufSize * 100

Songs == FirstSong .. (FirstSong + NumSongs - 1)
\* music_table has entries for ids below MusicTableLen.
MusicTableLen == FirstSong + NumSongs
SongIds == {0} \cup Songs \cup {MusicTableLen}

VARIABLES
    \* SoundManager (control thread)
    prev_song_id, current_song_id,
    \* the mpsc channel: messages sent and not yet received, and whether the
    \* receiving end still exists
    queue, rx_alive,
    \* the last Sound Manager call: its arguments, its result, and how many
    \* calls were made so far
    call,
    \* playback closure (audio thread)
    pc, frames_left, channels,
    state, saved_state, speed,
    org_engine, ogg_engine, pixtone,
    bgm_buf, pxt_buf, bgm_index, pxt_index, samples,
    \* the last frame written to the hardware buffer, as u16 samples
    frame,
    \* the type of the command the closure handled last in the current
    \* drain, "none" once a frame was produced since
    handled,
    \* history variables: the progress of the end-to-end scenario and of a
    \* temporary override (a song started over a playing one)
    script, ovr,
    \* the channel seen from both ends: how many messages at the end of queue
    \* the running call has not sent yet (play_song sends two, one after the
    \* other); history of the messages sent, each with the number of its
    \* call, and of the messages handled; the number of messages that were
    \* in the channel when the current callback began and the number it has
    \* handled since
    inflight, sent, done, drain_q0, drain_n,
    \* run, after the stream is built: the process-wide suspend flag, the
    \* suspend loop's own saved_state, whether the hardware stream is
    \* paused, and what the loop read in its last poll ("none" before the
    \* first, then "suspended" or "running")
    suspended, loop_saved_state, paused, polled,
    \* input: a GamepadController [state, old_state, trigger]; the history
    \* of the calls made on it; the children of a CombinedPlayerController;
    \* and the results of the last round of queries made on the combination
    gamepad, pad_hist, controllers, answer

ctlVars == <<prev_song_id, current_song_id, queue, rx_alive, call>>
audVars == <<pc, frames_left, channels, state, saved_state, speed, org_engine,
             ogg_engine, pixtone, bgm_buf, pxt_buf, bgm_index, pxt_index,
             samples, frame, handled>>
monVars == <<script, ovr>>
chanVars == <<inflight, sent, done, drain_q0, drain_n>>
susVars == <<suspended, loop_saved_state, paused, polled>>
inputVars == <<gamepad, pad_hist, controllers, answer>>
auxVars == <<chanVars, susVars, inputVars>>
vars == <<ctlVars, audVars, monVars, auxVars>>

(***************************************************************************)
(* f32 values: a number or NaN.                                            *)
(***************************************************************************)
F32(n) == [nan |-> FALSE, v |-> n]
NaN == [nan |-> TRUE, v |-> 0]
\* A comparison that lets zero through: speed < 0.0
LeZeroStrict(f) == ~f.nan /\ f.v < 0
\* speed <= 0.0
LeZero(f) == ~f.nan /\ f.v <= 0
\* new_speed > 0.0
GtZero(f) == ~f.nan /\ f.v > 0

(***************************************************************************)
(* Song sources and messages.                                              *)
(***************************************************************************)
NoSrc == [song |-> 0, prefix |-> "none"]
Src(song_id, prefix) == [song |-> song_id, prefix |-> prefix]

Msg(t, src, id, f) == [type |-> t, src |-> src, id |-> id, speed |-> f]
MsgStop == Msg("Stop", NoSrc, 0, F32(0))
MsgPlayOrganyaSong(src) == Msg("PlayOrganyaSong", src, 0, F32(0))
MsgPlayOggSongSinglePart(src) == Msg("PlayOggSongSinglePart", src, 0, F32(0))
MsgPlayOggSongMultiPart(src) == Msg("PlayOggSongMultiPart", src, 0, F32(0))
MsgPlaySample(id) == Msg("PlaySample", NoSrc, id, F32(0))
MsgSetSpeed(f) == Msg("SetSpeed", NoSrc, 0, f)
MsgSaveState == Msg("SaveState", NoSrc, 0, F32(0))
MsgRestoreState == Msg("RestoreState", NoSrc, 0, F32(0))

(***************************************************************************)
(* The virtual file system and the configuration a play_song call sees.    *)
(* A file is <<prefix, kind>> for the requested song name; env.files maps  *)
(* every file that exists to "ok" (opens and decodes) or "corrupt" (open   *)
(* or decode fails); env.override says whether constants.soundtracks has   *)
(* an entry for settings.soundtrack.                                       *)
(***************************************************************************)
AllPrefixes == {"override", "soundtrack", "builtin"}
FileKinds == {"intro", "loop", "ogg", "org"}
AllFiles == AllPrefixes \X FileKinds
NoFiles == [f \in {} |-> "ok"]
Env(files, override) == [files |-> files, override |-> override]
NoEnv == Env(NoFiles, FALSE)

\* constants.organya_paths
OrganyaPaths == <<"builtin">>

\* Vec::insert(0, x)
Insert0(seq, x) == <<x>> \o seq

\* A prefix list with the override put behind the soundtrack directory.
PathsSoundtrackFirst(env) ==
    IF env.override
    THEN <<"soundtrack", "override">> \o OrganyaPaths
    ELSE <<"soundtrack">> \o OrganyaPaths

\* play_song, the prefix list: the soundtrack directory is put in front of
\* the built-in paths, and then the override, when there is one, in front
\* of that.
Paths(env) ==
    LET p1 == Insert0(OrganyaPaths, "soundtrack")
    IN IF env.override THEN Insert0(p1, "override") ELSE p1

\* The entries of one prefix with the single-part file ahead of the pair.
SongsSinglePartFirst(prefix) ==
    << [format |-> "OggSinglePart", paths |-> << <<prefix, "ogg">> >>],
       [format |-> "OggMultiPart",
        paths |-> << <<prefix, "intro">>, <<prefix, "loop">> >>],
       [format |-> "Organya", paths |-> << <<prefix, "org">> >>] >>

\* The three (format, paths) entries built for one prefix, in array order.
SongsOf(prefix) ==
    << [format |-> "OggMultiPart",
        paths |-> << <<prefix, "intro">>, <<prefix, "loop">> >>],
       [format |-> "OggSinglePart", paths |-> << <<prefix, "ogg">> >>],
       [format |-> "Organya", paths |-> << <<prefix, "org">> >>] >>

\* songs_paths, flattened in iteration order: each entry carries its prefix.
RECURSIVE SongsPaths(_)
SongsPaths(paths) ==
    IF paths = <<>> THEN <<>>
    ELSE [i \in 1..3 |-> [format |-> SongsOf(Head(paths))[i].format,
                          paths |-> SongsOf(Head(paths))[i].paths,
                          prefix |-> Head(paths)]]
         \o SongsPaths(Tail(paths))

\* filesystem::exists over all paths of a candidate
ExistsAll(env, cand) ==
    \A i \in 1..Len(cand.paths) : cand.paths[i] \in DOMAIN env.files

\* filesystem::open and the decoder both succeed for every file
DecodesAll(env, cand) ==
    \A i \in 1..Len(cand.paths) : env.files[cand.paths[i]] = "ok"

NoCand == [format |-> "None", paths |-> <<>>, prefix |-> "none"]

\* Loops that give up at the first candidate whose files exist but do not
\* decode.
RECURSIVE ResolveFromNoRetry(_, _)
ResolveFromNoRetry(env, cands) ==
    IF cands = <<>> THEN NoCand
    ELSE IF ExistsAll(env, Head(cands))
         THEN IF DecodesAll(env, Head(cands)) THEN Head(cands) ELSE NoCand
         ELSE ResolveFromNoRetry(env, Tail(cands))

\* The nested loops of play_song: the first candidate, in order, whose files
\* all exist and all decode; NoCand when the loops run out.
RECURSIVE ResolveFrom(_, _)
ResolveFrom(env, cands) ==
    IF cands = <<>> THEN NoCand
    ELSE IF ExistsAll(env, Head(cands)) /\ DecodesAll(env, Head(cands))
         THEN Head(cands)
         ELSE ResolveFrom(env, Tail(cands))

Resolve(env) == ResolveFrom(env, SongsPaths(Paths(env)))

\* The start command play_song sends for a resolved candidate.
StartMsg(song_id, cand) ==
    CASE cand.format = "Organya" ->
            MsgPlayOrganyaSong(Src(song_id, cand.prefix))
      [] cand.format = "OggSinglePart" ->
            MsgPlayOggSongSinglePart(Src(song_id, cand.prefix))
      [] cand.format = "OggMultiPart" ->
            MsgPlayOggSongMultiPart(Src(song_id, cand.prefix))

(***************************************************************************)
(* Sound Manager operations. call records the operation, its arguments,    *)
(* its result, the number of the call, and current_song_id as it was when  *)
(* the call was made.                                                      *)
(***************************************************************************)
Call(op, song_id, env, id, f, ret) ==
    [n |-> call.n + 1, op |-> op, song_id |-> song_id, env |-> env,
     id |-> id, speed |-> f, ret |-> ret, was |-> current_song_id]

\* self.tx.send(m)? for each m of msgs in turn: the messages are queued while
\* the receiver exists, otherwise the first send fails and the call returns.
SendAll(msgs) == IF rx_alive THEN queue \o msgs ELSE queue
SendRet == IF rx_alive THEN "Ok" ELSE "SendError"

\* A lookup that finds a name for every id.
HasNameAlways(song_id) == TRUE
\* music_table.get(song_id)
HasName(song_id) == song_id < MusicTableLen

\* A play_sfx that hands the result of the send to its caller.
play_sfx_checked(id) ==
    /\ queue' = SendAll(<<MsgPlaySample(id)>>)
    /\ call' = Call("play_sfx", 0, NoEnv, id, F32(0), SendRet)
    /\ UNCHANGED <<prev_song_id, current_song_id, rx_alive, audVars>>

play_sfx(id) ==
    /\ queue' = SendAll(<<MsgPlaySample(id)>>)
    /\ call' = Call("play_sfx", 0, NoEnv, id, F32(0), "Ok")
    /\ UNCHANGED <<prev_song_id, current_song_id, rx_alive, audVars>>

\* A comparison that never finds the requested song current.
SameSongNever(cur, song_id) == FALSE
\* self.current_song_id == song_id
SameSong(cur, song_id) == cur = song_id

play_song(song_id, env) ==
    /\ IF SameSong(current_song_id, song_id)
       THEN /\ call' = Call("play_song", song_id, env, 0, F32(0), "Ok")
            /\ UNCHANGED <<prev_song_id, current_song_id, queue>>
       ELSE IF song_id = 0
       THEN /\ prev_song_id' = current_song_id
            /\ current_song_id' = 0
            /\ queue' = SendAll(<<MsgSaveState, MsgStop>>)
            /\ call' = Call("play_song", song_id, env, 0, F32(0), SendRet)
       ELSE IF HasName(song_id) /\ Resolve(env) # NoCand
       THEN /\ prev_song_id' = current_song_id
            /\ current_song_id' = song_id
            /\ queue' = SendAll(<<MsgSaveState,
                                  StartMsg(song_id, Resolve(env))>>)
            /\ call' = Call("play_song", song_id, env, 0, F32(0), SendRet)
       ELSE /\ call' = Call("play_song", song_id, env, 0, F32(0), "Ok")
            /\ UNCHANGED <<prev_song_id, current_song_id, queue>>
    /\ UNCHANGED <<rx_alive, audVars>>

save_state ==
    /\ queue' = SendAll(<<MsgSaveState>>)
    /\ prev_song_id' = IF rx_alive THEN current_song_id ELSE prev_song_id
    /\ call' = Call("save_state", 0, NoEnv, 0, F32(0), SendRet)
    /\ UNCHANGED <<current_song_id, rx_alive, audVars>>

restore_state ==
    /\ queue' = SendAll(<<MsgRestoreState>>)
    /\ current_song_id' = IF rx_alive THEN prev_song_id ELSE current_song_id
    /\ call' = Call("restore_state", 0, NoEnv, 0, F32(0), SendRet)
    /\ UNCHANGED <<prev_song_id, rx_alive, audVars>>

set_speed(f) ==
    /\ IF LeZero(f)
       THEN /\ call' = Call("set_speed", 0, NoEnv, 0, f, "InvalidValue")
            /\ UNCHANGED queue
       ELSE /\ queue' = SendAll(<<MsgSetSpeed(f)>>)
            /\ call' = Call("set_speed", 0, NoEnv, 0, f, SendRet)
    /\ UNCHANGED <<prev_song_id, current_song_id, rx_alive, audVars>>

\* current_song()
current_song == current_song_id

(***************************************************************************)
(* The renderers and the tone synthesizer, from their interface.           *)
(* An engine is [src, multi, pos, rate]: the song it holds, whether it is  *)
(* an intro + loop pair, the position of the next entry render_to will     *)
(* write, and the sample rate. A snapshot is [src, multi, pos].            *)
(***************************************************************************)
NewEngine == [src |-> NoSrc, multi |-> FALSE, pos |-> 0, rate |-> SampleRate]
NoSnap == [src |-> NoSrc, multi |-> FALSE, pos |-> 0]
SavedNone == [kind |-> "None", st |-> NoSnap]

PrefixIdx(p) ==
    CASE p = "override" -> 1 [] p = "soundtrack" -> 2 [] p = "builtin" -> 3
      [] OTHER -> 0

\* The u16 entry the renderer of format fmt writes for position pos of its
\* song: different for different songs, copies, formats and positions.
Wave(fmt, e, pos) ==
    LET f == IF fmt = "org" THEN 0 ELSE IF e.multi THEN 2 ELSE 1
    IN 1 + pos + 16 * (PrefixIdx(e.src.prefix) + 4 * (e.src.song + 16 * f))

\* start_song / start_single / start_multi
StartEngine(e, src, multi) == [e EXCEPT !.src = src, !.multi = multi, !.pos = 0]
\* get_state
GetState(e) == [src |-> e.src, multi |-> e.multi, pos |-> e.pos]
\* set_state
SetState(e, st) == [e EXCEPT !.src = st.src, !.multi = st.multi, !.pos = st.pos]
\* rewind
Rewind(e) == [e EXCEPT !.pos = 0]
\* set_sample_rate
SetSampleRate(e, r) == [e EXCEPT !.rate = r]
\* render_to(&mut buf) returning n: entries 1..n are written, the engine
\* moves n entries on (songs loop)
RenderBuf(fmt, e, buf, n) ==
    [i \in 1..BufLen |->
        IF i <= n THEN Wave(fmt, e, (e.pos + i - 1) % SongLen) ELSE buf[i]]
RenderAdvance(e, n) == [e EXCEPT !.pos = (e.pos + n) % SongLen]

\* The tone synthesizer: the effect being played and the rate of the last mix.
SfxIds == {1}
NoSfx == 0
SfxWave(id) == MidScale + 4096 * id
NewPixTone == [sfx |-> NoSfx, rate |-> SampleRate]
\* pixtone.mix(&mut buf, rate): active effects are mixed into the buffer
PixToneMix(pxt, buf) ==
    IF pxt.sfx = NoSfx THEN buf ELSE [i \in 1..BufSize |-> SfxWave(pxt.sfx)]

(***************************************************************************)
(* Playback closure: the command drain.                                    *)
(***************************************************************************)
\* for i in &mut bgm_buf[0..samples] { *i = v }
ZeroFill(buf, cnt, v) == [i \in 1..BufLen |-> IF i <= cnt THEN v ELSE buf[i]]

CallbackStart(nframes) ==
    /\ pc = "idle"
    /\ pc' = "drain"
    /\ frames_left' = nframes
    /\ UNCHANGED <<ctlVars, channels, state, saved_state, speed, org_engine,
                   ogg_engine, pixtone, bgm_buf, pxt_buf, bgm_index,
                   pxt_index, samples, frame, handled>>

\* A poll that hands out the first message and leaves it in the channel.
RecvKeeps(t) ==
    /\ pc = "drain"
    /\ queue # <<>>
    /\ Head(queue).type = t
    /\ queue' = queue
    /\ handled' = t
    /\ UNCHANGED <<prev_song_id, current_song_id, rx_alive, call>>

\* rx.try_recv() returns Ok(message of type t)
Recv(t) ==
    /\ pc = "drain"
    /\ queue # <<>>
    /\ Head(queue).type = t
    /\ queue' = Tail(queue)
    /\ handled' = t
    /\ UNCHANGED <<prev_song_id, current_song_id, rx_alive, call>>

\* A start handler that drops the snapshot whatever the thread's state.
ClearStaleAlways(st, saved) == SavedNone
\* if state == PlaybackState::Stopped { saved_state = PlaybackStateType::None; }
ClearStale(st, saved) == IF st = "Stopped" THEN SavedNone ELSE saved

HandlePlayOrganyaSong(n) ==
    /\ Recv("PlayOrganyaSong")
    /\ saved_state' = ClearStale(state, saved_state)
    /\ LET e == StartEngine(org_engine, Head(queue).src, FALSE)
       IN /\ bgm_buf' = RenderBuf("org", e, ZeroFill(bgm_buf, samples, FillOrg), n)
          /\ org_engine' = RenderAdvance(e, n)
    /\ samples' = n
    /\ bgm_index' = 0
    /\ state' = "PlayingOrg"
    /\ UNCHANGED <<pc, frames_left, channels, speed, ogg_engine, pixtone,
                   pxt_buf, pxt_index, frame>>

HandlePlayOggSongSinglePart(n) ==
    /\ Recv("PlayOggSongSinglePart")
    /\ saved_state' = ClearStale(state, saved_state)
    /\ LET e == StartEngine(ogg_engine, Head(queue).src, FALSE)
       IN /\ bgm_buf' = RenderBuf("ogg", e, ZeroFill(bgm_buf, samples, FillOgg), n)
          /\ ogg_engine' = RenderAdvance(e, n)
    /\ samples' = n
    /\ bgm_index' = 0
    /\ state' = "PlayingOgg"
    /\ UNCHANGED <<pc, frames_left, channels, speed, org_engine, pixtone,
                   pxt_buf, pxt_index, frame>>

HandlePlayOggSongMultiPart(n) ==
    /\ Recv("PlayOggSongMultiPart")
    /\ saved_state' = ClearStale(state, saved_state)
    /\ LET e == StartEngine(ogg_engine, Head(queue).src, TRUE)
       IN /\ bgm_buf' = RenderBuf("ogg", e, ZeroFill(bgm_buf, samples, FillOgg), n)
          /\ ogg_engine' = RenderAdvance(e, n)
    /\ samples' = n
    /\ bgm_index' = 0
    /\ state' = "PlayingOgg"
    /\ UNCHANGED <<pc, frames_left, channels, speed, org_engine, pixtone,
                   pxt_buf, pxt_index, frame>>

HandlePlaySample ==
    /\ Recv("PlaySample")
    /\ pixtone' = [pixtone EXCEPT !.sfx = Head(queue).id]
    /\ UNCHANGED <<pc, frames_left, channels, state, saved_state, speed,
                   org_engine, ogg_engine, bgm_buf, pxt_buf, bgm_index,
                   pxt_index, samples, frame>>

StopState(st) == "Stopped"

HandleStop ==
    /\ Recv("Stop")
    /\ saved_state' = ClearStale(state, saved_state)
    /\ state' = StopState(state)
    /\ UNCHANGED <<pc, frames_left, channels, speed, org_engine, ogg_engine,
                   pixtone, bgm_buf, pxt_buf, bgm_index, pxt_index, samples,
                   frame>>

\* (sample_rate / new_speed) as usize
ScaledRate(f) == IF GtZero(f) THEN SampleRate \div f.v ELSE 0

HandleSetSpeed ==
    /\ Recv("SetSpeed")
    /\ IF GtZero(Head(queue).speed)
       THEN /\ speed' = Head(queue).speed
            /\ ogg_engine' = SetSampleRate(ogg_engine, ScaledRate(Head(queue).speed))
            /\ org_engine' = SetSampleRate(org_engine, ScaledRate(Head(queue).speed))
            /\ UNCHANGED pc
       ELSE \* assert!(new_speed > 0.0) fails
            /\ pc' = "panicked"
            /\ UNCHANGED <<speed, ogg_engine, org_engine>>
    /\ UNCHANGED <<frames_left, channels, state, saved_state, pixtone, bgm_buf,
                   pxt_buf, bgm_index, pxt_index, samples, frame>>

\* A save-state that takes a snapshot of the sequenced renderer also when
\* the thread is Stopped.
SnapshotKeepsPlaying(st, org, ogg) ==
    IF st = "PlayingOgg" THEN [kind |-> "Ogg", st |-> GetState(ogg)]
    ELSE [kind |-> "Organya", st |-> GetState(org)]
\* the value SaveState stores
Snapshot(st, org, ogg) ==
    CASE st = "Stopped" -> SavedNone
      [] st = "PlayingOrg" -> [kind |-> "Organya", st |-> GetState(org)]
      [] st = "PlayingOgg" -> [kind |-> "Ogg", st |-> GetState(ogg)]

HandleSaveState ==
    /\ Recv("SaveState")
    /\ saved_state' = Snapshot(state, org_engine, ogg_engine)
    /\ UNCHANGED <<pc, frames_left, channels, state, speed, org_engine,
                   ogg_engine, pixtone, bgm_buf, pxt_buf, bgm_index, pxt_index,
                   samples, frame>>

\* A restore that never rewinds.
RestoredNeverRewound(e, st, cur) == SetState(e, st)
\* A restore that rewinds whatever the thread's state.
RestoredAlwaysRewound(e, st, cur) == Rewind(SetState(e, st))
\* set_state, then rewind when the thread is Stopped
Restored(e, st, cur) ==
    IF cur = "Stopped" THEN Rewind(SetState(e, st)) ELSE SetState(e, st)

\* A swap that leaves a copy of the snapshot behind.
SwapLeavesCopy(saved) == saved
\* std::mem::swap(&mut saved_state_loc, &mut saved_state) with
\* saved_state_loc = None: what is left in saved_state
SwapLeaves(saved) == SavedNone

\* A restore that always reports the sequenced renderer as playing.
RestoredPlaybackOrg(kind) == "PlayingOrg"
\* state = PlaybackState::PlayingOrg / PlayingOgg at the end of the arm of
\* the snapshot's kind
RestoredPlayback(kind) ==
    IF kind = "Organya" THEN "PlayingOrg" ELSE "PlayingOgg"

HandleRestoreState(n) ==
    /\ Recv("RestoreState")
    /\ saved_state' = SwapLeaves(saved_state)
    /\ CASE saved_state.kind = "None" ->
              /\ n = 0
              /\ UNCHANGED <<state, org_engine, ogg_engine, bgm_buf, bgm_index,
                             samples>>
         [] saved_state.kind = "Organya" ->
              LET e == Restored(org_engine, saved_state.st, state)
              IN /\ bgm_buf' = RenderBuf("org", e,
                                         ZeroFill(bgm_buf, samples, FillOrg), n)
                 /\ org_engine' = RenderAdvance(e, n)
                 /\ samples' = n
                 /\ bgm_index' = 0
                 /\ state' = RestoredPlayback(saved_state.kind)
                 /\ UNCHANGED ogg_engine
         [] saved_state.kind = "Ogg" ->
              LET e == Restored(ogg_engine, saved_state.st, state)
              IN /\ bgm_buf' = RenderBuf("ogg", e,
                                         ZeroFill(bgm_buf, samples, FillOgg), n)
                 /\ ogg_engine' = RenderAdvance(e, n)
                 /\ samples' = n
                 /\ bgm_index' = 0
                 /\ state' = RestoredPlayback(saved_state.kind)
                 /\ UNCHANGED org_engine
    /\ UNCHANGED <<pc, frames_left, channels, speed, pixtone, pxt_buf,
                   pxt_index, frame>>

\* rx.try_recv() returns Err: the drain ends and the frame loop starts
RecvErr ==
    /\ pc = "drain"
    /\ queue = <<>>
    /\ pc' = "frames"
    /\ UNCHANGED <<ctlVars, frames_left, channels, state, saved_state, speed,
                   org_engine, ogg_engine, pixtone, bgm_buf, pxt_buf,
                   bgm_index, pxt_index, samples, frame, handled>>

(***************************************************************************)
(* Playback closure: the frame loop, one frame per step.                   *)
(***************************************************************************)
\* x ^ 0x8000 on u16
Xor8000(x) == (x + 32768) % 65536
\* x as i16, for a u16 x
AsI16(x) == IF x >= 32768 THEN x - 65536 ELSE x
\* x as u16, for an isize x
AsU16(x) == x % 65536
\* A clamp that has lost its lower limit.
ClampHiOnly(x, lo, hi) == IF x > hi THEN hi ELSE x
\* num_traits::clamp
Clamp(x, lo, hi) == IF x < lo THEN lo ELSE IF x > hi THEN hi ELSE x
\* i16 addition that wraps, and whether it overflows
WrapI16(x) == ((x + 32768) % 65536) - 32768
OverflowsI16(x) == x < -32768 \/ x > 32767
\* i16 division by 2 (rounds towards zero)
Half(x) == IF x >= 0 THEN x \div 2 ELSE -((-x) \div 2)

\* (sample & 0xff) << 8 and sample & 0xff00
OrgLeft(sample) == (sample % 256) * 256
OrgRight(sample) == (sample \div 256) * 256

\* one channel of the stereo path
MixStereo(bgm, pxt) ==
    Xor8000(AsU16(Clamp(AsI16(Xor8000(bgm)) + AsI16(Xor8000(pxt)),
                        ClampLo, ClampHi)))
\* the mono path
MixMono(l, r, pxt) ==
    Xor8000(AsU16(Clamp(
        Half(WrapI16(AsI16(Xor8000(l)) + AsI16(Xor8000(r))))
            + AsI16(Xor8000(pxt)),
        ClampLo, ClampHi)))
MonoOverflows(l, r) == OverflowsI16(AsI16(Xor8000(l)) + AsI16(Xor8000(r)))

\* The part of the loop body after the background pair (l, r) is known:
\* the effect sample, the cyclic effect buffer, and the frame written.
MixOut(l, r) ==
    LET pxt_sample == pxt_buf[pxt_index + 1]
        wraps == ~(pxt_index < BufSize - 1)
        mixed == [pixtone EXCEPT !.rate = ScaledRate(speed)]
    IN /\ IF wraps
          THEN /\ pxt_index' = 0
               /\ pxt_buf' = PixToneMix(mixed, [i \in 1..BufSize |-> MidScale])
               \* the effect goes on, or this was its last part
               /\ \E nxt \in {pixtone.sfx, NoSfx} :
                      pixtone' = [mixed EXCEPT !.sfx = nxt]
          ELSE /\ pxt_index' = pxt_index + 1
               /\ UNCHANGED <<pxt_buf, pixtone>>
       /\ IF channels >= 2
          THEN /\ frame' = <<MixStereo(l, pxt_sample), MixStereo(r, pxt_sample)>>
               /\ pc' = IF frames_left = 1 THEN "idle" ELSE "frames"
          ELSE \* the i16 sum wraps, or panics where overflow is checked
               \E wrap \in (IF MonoOverflows(l, r) THEN {TRUE, FALSE} ELSE {TRUE}) :
                  IF wrap
                  THEN /\ frame' = <<MixMono(l, r, pxt_sample)>>
                       /\ pc' = IF frames_left = 1 THEN "idle" ELSE "frames"
                  ELSE /\ frame' = frame
                       /\ pc' = "panicked"
       /\ frames_left' = frames_left - 1
       /\ handled' = "none"
       /\ UNCHANGED <<ctlVars, channels, state, saved_state, speed>>

\* A Stopped pair taken from the fill value of the music buffer.
StoppedPairOrgFill == <<FillOrg, FillOrg>>
\* the pair taken while Stopped
StoppedPair == <<MidScale, MidScale>>

\* A frame that needs no rendering: Stopped, or the cursor is inside the
\* valid part of bgm_buf.
FrameBuffered ==
    /\ pc = "frames"
    /\ frames_left > 0
    /\ state = "Stopped" \/ bgm_index < samples
    /\ CASE state = "Stopped" ->
              /\ MixOut(StoppedPair[1], StoppedPair[2])
              /\ UNCHANGED <<org_engine, ogg_engine, bgm_buf, bgm_index, samples>>
         [] state = "PlayingOrg" ->
              /\ MixOut(OrgLeft(bgm_buf[bgm_index + 1]),
                        OrgRight(bgm_buf[bgm_index + 1]))
              /\ bgm_index' = bgm_index + 1
              /\ UNCHANGED <<org_engine, ogg_engine, bgm_buf, samples>>
         [] state = "PlayingOgg" ->
              /\ MixOut(bgm_buf[bgm_index + 1], bgm_buf[bgm_index + 2])
              /\ bgm_index' = bgm_index + 2
              /\ UNCHANGED <<org_engine, ogg_engine, bgm_buf, samples>>

\* A cursor that moves on by one entry after a render of either kind.
CursorAfterRenderOne(st) == 1
\* bgm_index = 1 / bgm_index = 2 after the render of the frame loop: one
\* entry of a sequenced song is a frame, two entries of a streamed song are
CursorAfterRender(st) == IF st = "PlayingOrg" THEN 1 ELSE 2

\* A frame taken when the valid part is used up: the buffer is filled and
\* rendered again, render_to returning n.
FrameRender(n) ==
    /\ pc = "frames"
    /\ frames_left > 0
    /\ state # "Stopped"
    /\ ~(bgm_index < samples)
    /\ samples' = n
    /\ CASE state = "PlayingOrg" ->
              LET buf == RenderBuf("org", org_engine,
                                   ZeroFill(bgm_buf, samples, FillOrg), n)
              IN /\ bgm_buf' = buf
                 /\ org_engine' = RenderAdvance(org_engine, n)
                 /\ bgm_index' = CursorAfterRender(state)
                 /\ MixOut(OrgLeft(buf[1]), OrgRight(buf[1]))
                 /\ UNCHANGED ogg_engine
         [] state = "PlayingOgg" ->
              LET buf == RenderBuf("ogg", ogg_engine,
                                   ZeroFill(bgm_buf, samples, FillOrg), n)
              IN /\ bgm_buf' = buf
                 /\ ogg_engine' = RenderAdvance(ogg_engine, n)
                 /\ bgm_index' = CursorAfterRender(state)
                 /\ MixOut(buf[1], buf[2])
                 /\ UNCHANGED org_engine

(***************************************************************************)
(* Observations used by the properties.                                    *)
(***************************************************************************)
Playing == state # "Stopped"
ActiveFmt == IF state = "PlayingOrg" THEN "org" ELSE "ogg"
ActiveEngine == IF state = "PlayingOrg" THEN org_engine ELSE ogg_engine
EngineOf(fmt) == IF fmt = "org" THEN org_engine ELSE ogg_engine
StateOf(fmt) == IF fmt = "org" THEN "PlayingOrg" ELSE "PlayingOgg"

\* The first entry of background music the frame loop will take next: the
\* entry under the cursor, or, when the valid part is used up, the entry
\* the renderer writes next.
NextAudible ==
    IF bgm_index < samples THEN bgm_buf[bgm_index + 1]
    ELSE Wave(ActiveFmt, ActiveEngine, ActiveEngine.pos)

\* The renderer of format fmt holds the song of snapshot st, the valid part
\* of bgm_buf was rendered from position pos on, and the cursor is at its
\* start.
RenderedFrom(fmt, st, pos) ==
    /\ EngineOf(fmt).src = st.src
    /\ EngineOf(fmt).multi = st.multi
    /\ EngineOf(fmt).pos = (pos + samples) % SongLen
    /\ \A i \in 1..samples :
          bgm_buf[i] = Wave(fmt, EngineOf(fmt), (pos + i - 1) % SongLen)
    /\ bgm_index = 0

(***************************************************************************)
(* History of the end-to-end scenario: step counts the calls of the        *)
(* scenario made so far (1..4), is 5 right after the restore-state of the  *)
(* fourth call was handled and 6 from the next audio step on; snap is the  *)
(* sequenced renderer as it was when the save-state of the third call was  *)
(* handled.                                                                *)
(***************************************************************************)
ScriptStart == [step |-> 0, snap |-> NoSnap]

(***************************************************************************)
(* History of a temporary override: play_song(B) called while song A is    *)
(* playing and nothing is queued, then restore_state().                    *)
(*   ph    "idle", "called" (play_song(B) returned), "saved" (its          *)
(*         save-state was handled), "restored" (the restore-state of the   *)
(*         later restore_state() was handled in the last audio step)       *)
(*   song  A;  fmt  the format A was playing in                            *)
(*   snap  the renderer of A as it was when the save-state was handled     *)
(*   rs    the number of the restore_state() call, 0 before it             *)
(***************************************************************************)
OvrIdle == [ph |-> "idle", song |-> 0, fmt |-> "none", snap |-> NoSnap, rs |-> 0]

OvrCall ==
    ovr' =
      IF ovr.ph # "idle" /\ ovr.rs # 0 THEN ovr
      ELSE CASE call'.op = "play_song" ->
                  IF /\ current_song_id # 0
                     /\ call'.song_id \notin {0, current_song_id}
                     /\ queue = <<>> /\ Len(queue') = 2
                     /\ Playing /\ ActiveEngine.src.song = current_song_id
                  THEN [ph |-> "called", song |-> current_song_id,
                        fmt |-> ActiveFmt, snap |-> NoSnap, rs |-> 0]
                  ELSE OvrIdle
             [] call'.op = "save_state" -> OvrIdle
             [] call'.op = "restore_state" ->
                  IF ovr.ph # "idle" THEN [ovr EXCEPT !.rs = call'.n] ELSE ovr
             [] OTHER -> ovr

OvrAudio ==
    ovr' =
      IF queue' # queue
      THEN CASE ovr.ph = "called" /\ Head(queue).type = "SaveState" ->
                  [ovr EXCEPT !.ph = "saved", !.snap = GetState(EngineOf(ovr.fmt))]
             [] ovr.ph = "saved" /\ Head(queue).type = "RestoreState" ->
                  [ovr EXCEPT !.ph = "restored"]
             [] ovr.ph = "restored" -> OvrIdle
             [] OTHER -> ovr
      ELSE IF ovr.ph = "restored" THEN OvrIdle ELSE ovr

(***************************************************************************)
(* Input: GamepadController (input/gamepad_player_controller.rs). A        *)
(* KeyState is the number whose binary digits are the button bits.         *)
(***************************************************************************)
KeyStates == 0 .. (2 ^ KeyBits - 1)
Buttons == 0 .. (KeyBits - 1)

\* a ^ b on the raw bits
RECURSIVE BitXor(_, _)
BitXor(a, b) ==
    IF a = 0 /\ b = 0 THEN 0
    ELSE (((a % 2) + (b % 2)) % 2) + 2 * BitXor(a \div 2, b \div 2)

\* a & b on the raw bits
RECURSIVE BitAnd(_, _)
BitAnd(a, b) ==
    IF a = 0 \/ b = 0 THEN 0
    ELSE ((a % 2) * (b % 2)) + 2 * BitAnd(a \div 2, b \div 2)

\* GamepadController::new
NewGamepad == [state |-> 0, old_state |-> 0, trigger |-> 0]

\* History of the calls on the gamepad: the last operation, a mark that
\* flips with every call, the state as it was at the last update_trigger
\* (0 before the first), and whether set_state was not called since.
NewPadHist == [op |-> "new", tick |-> 0, prev |-> 0, fresh |-> TRUE]
PadOp(op) == [pad_hist EXCEPT !.op = op, !.tick = 1 - pad_hist.tick]

PadOther == UNCHANGED <<ctlVars, audVars, monVars, chanVars, susVars,
                        controllers, answer>>

\* update: every button bit of state is set from what the gamepad reports
update(buttons) ==
    /\ gamepad' = [gamepad EXCEPT !.state = buttons]
    /\ pad_hist' = PadOp("update")
    /\ PadOther

\* A trigger that follows the level of the buttons.
TriggerLevel(s, o) == s
\* let mut trigger = self.state.0 ^ self.old_state.0; trigger &= self.state.0;
Trigger(s, o) == BitAnd(BitXor(s, o), s)

update_trigger ==
    /\ gamepad' = [state |-> gamepad.state,
                   old_state |-> gamepad.state,
                   trigger |-> Trigger(gamepad.state, gamepad.old_state)]
    /\ pad_hist' = [PadOp("update_trigger") EXCEPT !.prev = gamepad.state,
                                                   !.fresh = TRUE]
    /\ PadOther

\* set_state((state, old_state, trigger))
set_state(s, o, t) ==
    /\ gamepad' = [state |-> s, old_state |-> o, trigger |-> t]
    /\ pad_hist' = [PadOp("set_state") EXCEPT !.fresh = FALSE]
    /\ PadOther

\* dump_state
dump_state == <<gamepad.state, gamepad.old_state, gamepad.trigger>>

(***************************************************************************)
(* Input: CombinedPlayerController (input/combined_player_controller.rs).  *)
(* A child is any PlayerController, seen through the answers it gives: one *)
(* held-state query (jump), one trigger-edge query (trigger_jump) and the  *)
(* two axes, in units of 1.0.                                              *)
(***************************************************************************)
AnalogInputs == {-2, -1, 0, 1, 2}
Children ==
    [jump : BOOLEAN, trigger_jump : BOOLEAN,
     move_analog_x : AnalogInputs, move_analog_y : AnalogInputs]

NoAnswer == [asked |-> FALSE, jump |-> FALSE, trigger_jump |-> FALSE,
             move_analog_x |-> 0, move_analog_y |-> 0]

CombinedOther == UNCHANGED <<ctlVars, audVars, monVars, chanVars, susVars,
                             gamepad, pad_hist>>

\* add: self.controllers.push(controller)
add(controller) ==
    /\ controllers' = Append(controllers, controller)
    /\ answer' = NoAnswer
    /\ CombinedOther

\* An iteration that is true only if the query is true for every child.
RECURSIVE AnyAll(_, _)
AnyAll(q, cs) ==
    IF cs = <<>> THEN TRUE ELSE Head(cs)[q] /\ AnyAll(q, Tail(cs))

\* self.controllers.iter().any(|cont| cont.q())
RECURSIVE any(_, _)
any(q, cs) ==
    IF cs = <<>> THEN FALSE ELSE Head(cs)[q] \/ any(q, Tail(cs))

\* self.controllers.iter().fold(acc, |acc, cont| acc + cont.q())
RECURSIVE fold(_, _, _)
fold(acc, q, cs) ==
    IF cs = <<>> THEN acc ELSE fold(acc + Head(cs)[q], q, Tail(cs))

\* f64::clamp(min, max)
ClampF64(x, min, max) == IF x < min THEN min ELSE IF x > max THEN max ELSE x

jump == any("jump", controllers)
trigger_jump == any("trigger_jump", controllers)
move_analog_x == ClampF64(fold(0, "move_analog_x", controllers), -1, 1)
move_analog_y == ClampF64(fold(0, "move_analog_y", controllers), -1, 1)

\* One round of queries on the combination.
Ask ==
    /\ ~answer.asked
    /\ answer' = [asked |-> TRUE, jump |-> jump, trigger_jump |-> trigger_jump,
                  move_analog_x |-> move_analog_x,
                  move_analog_y |-> move_analog_y]
    /\ controllers' = controllers
    /\ CombinedOther

(***************************************************************************)
(* Specification: a Sound Manager whose audio thread is running, called    *)
(* at most MaxCalls times.                                                 *)
(***************************************************************************)
NoCall == [n |-> 0, op |-> "none", song_id |-> 0, env |-> NoEnv, id |-> 0,
           speed |-> F32(0), ret |-> "Ok", was |-> 0]

Init ==
    /\ prev_song_id = 0
    /\ current_song_id = 0
    /\ queue = <<>>
    /\ rx_alive = TRUE
    /\ call = NoCall
    /\ pc = "idle"
    /\ frames_left = 0
    /\ channels \in {1, 2}
    /\ state = "Stopped"
    /\ saved_state = SavedNone
    /\ speed = F32(1)
    /\ org_engine = NewEngine
    /\ ogg_engine = NewEngine
    /\ pixtone = NewPixTone
    /\ bgm_buf = [i \in 1..BufLen |-> FillOrg]
    /\ pxt_buf = PixToneMix(NewPixTone, [i \in 1..BufSize |-> MidScale])
    /\ bgm_index = 0
    /\ pxt_index = 0
    /\ samples = 0
    /\ frame = <<>>
    /\ handled = "none"
    /\ script = ScriptStart
    /\ ovr = OvrIdle
    /\ inflight = 0
    /\ sent = <<>>
    /\ done = <<>>
    /\ drain_q0 = 0
    /\ drain_n = 0
    /\ suspended = FALSE
    /\ loop_saved_state = TRUE
    /\ paused = FALSE
    /\ polled = "none"
    /\ gamepad = NewGamepad
    /\ pad_hist = NewPadHist
    /\ controllers = <<>>
    /\ answer = NoAnswer

\* The file systems and configurations of the calls of Spec.
File(prefix, kind) == <<prefix, kind>>
FilesOk(fs) == [f \in fs |-> "ok"]
EnvInputs ==
    { NoEnv,
      Env(FilesOk({File("soundtrack", "org")}), FALSE),
      Env(FilesOk({File("builtin", "ogg")}), FALSE),
      Env(FilesOk({File("override", "intro"), File("override", "loop")}), TRUE) }
SpeedInputs == {F32(-1), F32(0), F32(2), NaN}
RenderCounts == 0..BufLen
CallsLeft == call.n < MaxCalls

Control == OvrCall /\ UNCHANGED <<script, auxVars>>
Audio == OvrAudio /\ UNCHANGED <<script, auxVars>>

Next ==
    \/ \E id \in SfxIds : CallsLeft /\ play_sfx(id) /\ Control
    \/ \E song_id \in {0} \cup Songs, env \in EnvInputs :
          CallsLeft /\ play_song(song_id, env) /\ Control
    \/ CallsLeft /\ save_state /\ Control
    \/ CallsLeft /\ restore_state /\ Control
    \/ \E f \in SpeedInputs : CallsLeft /\ set_speed(f) /\ Control
    \/ \E nframes \in 1..MaxFrames : CallbackStart(nframes) /\ Audio
    \/ \E n \in RenderCounts : HandlePlayOrganyaSong(n) /\ Audio
    \/ \E n \in RenderCounts : HandlePlayOggSongSinglePart(n) /\ Audio
    \/ \E n \in RenderCounts : HandlePlayOggSongMultiPart(n) /\ Audio
    \/ HandlePlaySample /\ Audio
    \/ HandleStop /\ Audio
    \/ HandleSetSpeed /\ Audio
    \/ HandleSaveState /\ Audio
    \/ \E n \in RenderCounts : HandleRestoreState(n) /\ Audio
    \/ RecvErr /\ Audio
    \/ FrameBuffered /\ Audio
    \/ \E n \in RenderCounts : FrameRender(n) /\ Audio

Spec == Init /\ [][Next]_vars

(***************************************************************************)
(* Specification of the end-to-end scenario: the control thread makes the  *)
(* four calls play_song(FirstSong), play_song(FirstSong), play_song(0),    *)
(* restore_state(), each one once the queue is drained; the audio thread   *)
(* runs freely.                                                            *)
(***************************************************************************)
\* only the sequenced file exists, under a prefix of the list
OnlyOrgEnvs ==
    { Env(FilesOk({File(p, "org")}), o) :
        <<p, o>> \in {<<"soundtrack", FALSE>>, <<"soundtrack", TRUE>>,
                      <<"builtin", FALSE>>, <<"builtin", TRUE>>,
                      <<"override", TRUE>>} }

ScriptStep(k) ==
    script' = [script EXCEPT !.step = k] /\ UNCHANGED <<ovr, auxVars>>

ScriptAudio ==
    /\ script' =
         IF queue' # queue /\ script.step = 3 /\ Head(queue).type = "SaveState"
         THEN [script EXCEPT !.snap = GetState(org_engine)]
         ELSE IF queue' # queue /\ script.step = 4
                 /\ Head(queue).type = "RestoreState"
         THEN [script EXCEPT !.step = 5]
         ELSE IF script.step = 5 THEN [script EXCEPT !.step = 6]
         ELSE script
    /\ UNCHANGED <<ovr, auxVars>>

NextE2E ==
    \/ \E env \in OnlyOrgEnvs :
          script.step = 0 /\ play_song(FirstSong, env) /\ ScriptStep(1)
    \/ \E env \in EnvInputs :
          script.step = 1 /\ queue = <<>>
          /\ play_song(FirstSong, env) /\ ScriptStep(2)
    \/ script.step = 2 /\ queue = <<>> /\ play_song(0, NoEnv) /\ ScriptStep(3)
    \/ script.step = 3 /\ queue = <<>> /\ restore_state /\ ScriptStep(4)
    \/ \E nframes \in 1..MaxFrames : CallbackStart(nframes) /\ ScriptAudio
    \/ \E n \in RenderCounts : HandlePlayOrganyaSong(n) /\ ScriptAudio
    \/ HandleStop /\ ScriptAudio
    \/ HandleSaveState /\ ScriptAudio
    \/ \E n \in RenderCounts : HandleRestoreState(n) /\ ScriptAudio
    \/ RecvErr /\ ScriptAudio
    \/ FrameBuffered /\ ScriptAudio
    \/ \E n \in RenderCounts : FrameRender(n) /\ ScriptAudio

SpecE2E == Init /\ [][NextE2E]_vars

\* The first three steps of the scenario, as the claim states them.
E2EFirstSteps ==
    /\ script.step = 1 =>
          /\ current_song = FirstSong
          /\ queue = <<>> =>
                /\ state = "PlayingOrg"
                /\ org_engine.src.song = FirstSong
    /\ script.step = 2 =>
          /\ call.ret = "Ok" /\ queue = <<>>
          /\ current_song = FirstSong /\ prev_song_id = 0
          /\ state = "PlayingOrg" /\ org_engine.src.song = FirstSong
    /\ script.step = 3 =>
          /\ prev_song_id = FirstSong
          /\ queue = <<>> => state = "Stopped"

\* C1 as stated: the scenario ends with the sequenced renderer resumed at
\* the position the save-state of play_song(0) captured.
C1_AsStated ==
    /\ E2EFirstSteps
    /\ script.step = 5 =>
          /\ state = "PlayingOrg"
          /\ current_song = FirstSong
          /\ RenderedFrom("org", script.snap, script.snap.pos)

\* C1, amended: in the end-to-end scenario play_song(FirstSong) with only
\* the sequenced file present starts the sequenced renderer and gives
\* current_song() = FirstSong; the second play_song(FirstSong) enqueues
\* nothing and changes nothing; play_song(0) stops the thread with
\* prev_song_id = FirstSong; and the restore_state() that follows puts the
\* thread in PlayingOrg with the sequenced renderer holding the saved song
\* rewound to its start (position 0, not the saved position), and
\* current_song() = FirstSong.
C1_EndToEnd ==
    /\ E2EFirstSteps
    /\ script.step = 5 =>
          /\ state = "PlayingOrg"
          /\ current_song = FirstSong
          /\ script.snap.src.song = FirstSong
          /\ RenderedFrom("org", script.snap, 0)

\* The scenario ran to its end, and the saved position was not the start.
C1_Witness == script.step = 5 /\ script.snap.pos # 0 /\ samples > 0

(***************************************************************************)
(* Properties of Spec.                                                     *)
(***************************************************************************)
\* The factor is a number and is at most zero; is a number above zero.
NonPositive(f) == ~f.nan /\ f.v <= 0
Positive(f) == ~f.nan /\ f.v > 0
\* This step is a Sound Manager call of operation op.
IsCall(op) == call'.n = call.n + 1 /\ call'.op = op
\* This step handles a command of type t.
Handles(t) == queue # <<>> /\ queue' = Tail(queue) /\ Head(queue).type = t

\* C2 as stated: once play_song(0) was the last call and the audio thread
\* has drained the queue, the thread is Stopped and current_song() = 0.
C2_StopAlwaysSilences ==
    (call.op = "play_song" /\ call.song_id = 0 /\ queue = <<>>
        /\ pc # "panicked")
    => (state = "Stopped" /\ current_song = 0)

\* C3 as stated: a restore-state handled right after a save-state, while
\* the thread is playing, leaves the next audible entry and PlaybackState
\* as they were; and restore_state() called right after save_state() leaves
\* current_song() as it was.
C3_SaveRestoreNoOp ==
    [][ /\ (Handles("RestoreState") /\ handled = "SaveState" /\ Playing)
            => (NextAudible' = NextAudible /\ state' = state)
        /\ (IsCall("restore_state") /\ call.op = "save_state"
              /\ call.ret = "Ok" /\ call'.ret = "Ok")
            => current_song_id' = call.was ]_vars

\* C4: when play_song(B) is called while song A is playing (nothing queued,
\* B non-zero, different from A and resolvable), a later restore_state(),
\* with no save_state or play_song call in between, returns with
\* current_song() = A, and once its restore-state is handled the thread is
\* in the Playing state of A's format with the renderer of that format
\* holding A, rendered from the position that renderer had when the
\* save-state of play_song(B) was handled.
C4_OverrideReturns ==
    /\ (ovr.ph # "idle" /\ ovr.rs # 0 /\ call.n = ovr.rs)
          => (call.ret = "Ok" /\ current_song = ovr.song)
    /\ ovr.ph = "restored" =>
          /\ ovr.snap.src.song = ovr.song
          /\ state = StateOf(ovr.fmt)
          /\ RenderedFrom(ovr.fmt, ovr.snap, ovr.snap.pos)

\* A returned to after an override in the same format, from a position
\* that is not the start.
C4_Witness ==
    /\ ovr.ph = "restored"
    /\ ovr.snap.pos # 0
    /\ samples > 0
    /\ call.n = ovr.rs

\* C5: play_song(id) with id = current_song_id returns Ok, enqueues nothing
\* and leaves current_song_id and prev_song_id unchanged, for every id.
C5_SameSongNoOp ==
    [][ (IsCall("play_song") /\ call'.song_id = current_song_id)
        => /\ call'.ret = "Ok"
           /\ queue' = queue
           /\ current_song_id' = current_song_id
           /\ prev_song_id' = prev_song_id ]_vars

\* play_song was called again for the song that is playing.
C5_Witness ==
    /\ call.op = "play_song" /\ call.was = call.song_id /\ call.song_id # 0
    /\ Resolve(call.env) # NoCand
    /\ Playing

\* C7: set_speed(f) with f <= 0 returns the invalid-argument error and
\* enqueues nothing, so that no set-speed command with such a factor is
\* ever queued and the rates of both renderers and of the effect mixer stay
\* those of a positive factor; with f > 0 exactly one set-speed(f) command
\* is put at the end of the queue.
C7_SetSpeedChecked ==
    /\ [][ IsCall("set_speed") =>
             /\ NonPositive(call'.speed) =>
                   /\ call'.ret = "InvalidValue"
                   /\ queue' = queue
                   /\ <<speed, org_engine.rate, ogg_engine.rate, pixtone.rate>>'
                        = <<speed, org_engine.rate, ogg_engine.rate, pixtone.rate>>
             /\ Positive(call'.speed) =>
                   /\ call'.ret = "Ok"
                   /\ queue' = Append(queue, MsgSetSpeed(call'.speed)) ]_vars
    /\ [](/\ \A i \in 1..Len(queue) :
               queue[i].type = "SetSpeed" => ~NonPositive(queue[i].speed)
          /\ Positive(speed)
          /\ org_engine.rate = ScaledRate(speed)
          /\ ogg_engine.rate = ScaledRate(speed))

\* set_speed refused a factor that is not positive, after a speed had been
\* set.
C7_Witness ==
    /\ call.op = "set_speed" /\ NonPositive(call.speed)
    /\ call.ret = "InvalidValue"
    /\ speed = F32(2)

\* C10: every frame produced while the thread is Stopped and the effect
\* buffer holds only 0x8000 is made of the mid-scale sample 0x8000 on
\* every channel, in the stereo and in the mono path.
C10_SilenceIsMidScale ==
    [][ (pc = "frames" /\ frames_left' = frames_left - 1
           /\ state = "Stopped"
           /\ \A i \in 1..BufSize : pxt_buf[i] = MidScale)
        => /\ pc' # "panicked"
           /\ Len(frame') = (IF channels >= 2 THEN 2 ELSE 1)
           /\ \A c \in 1..Len(frame') : frame'[c] = MidScale ]_vars

\* A silent frame was produced on one channel after playback was stopped.
C10_Witness ==
    /\ state = "Stopped" /\ handled = "none"
    /\ frame = <<MidScale>>
    /\ pxt_buf = [i \in 1..BufSize |-> MidScale]
    /\ call.op = "play_song" /\ call.song_id = 0 /\ call.was # 0
    /\ queue = <<>>

(***************************************************************************)
(* Specification of song resolution: a first play_song call, and then a    *)
(* second one for any song id under any file system with at most MaxFiles  *)
(* files, each of them decodable or corrupt, with and without an override. *)
(***************************************************************************)
FileSystems ==
    UNION { [fs -> {"ok", "corrupt"}] :
              fs \in {x \in SUBSET AllFiles : Cardinality(x) <= MaxFiles} }
EnvAll == { Env(files, o) : files \in FileSystems, o \in BOOLEAN }

NextResolve ==
    \/ /\ call.n = 0
       /\ \E env \in EnvInputs :
             play_song(FirstSong, env) /\ UNCHANGED <<monVars, auxVars>>
    \/ /\ call.n = 1
       /\ \E song_id \in SongIds, env \in EnvAll :
             play_song(song_id, env) /\ UNCHANGED <<monVars, auxVars>>

SpecResolve == Init /\ [][NextResolve]_vars

\* The prefixes play_song looks under, and whether all files of a format
\* exist under a prefix.
CandidatePrefixes(env) ==
    {"soundtrack", "builtin"} \cup (IF env.override THEN {"override"} ELSE {})
FormatKinds(format) ==
    CASE format = "OggMultiPart" -> {"intro", "loop"}
      [] format = "OggSinglePart" -> {"ogg"}
      [] format = "Organya" -> {"org"}
Formats == {"OggMultiPart", "OggSinglePart", "Organya"}
Present(env, prefix, format) ==
    \A k \in FormatKinds(format) : File(prefix, k) \in DOMAIN env.files
SomePresent(env, prefix) == \E fmt \in Formats : Present(env, prefix, fmt)
AllDecodable(env) == \A f \in DOMAIN env.files : env.files[f] = "ok"
StartType(format) ==
    CASE format = "OggMultiPart" -> "PlayOggSongMultiPart"
      [] format = "OggSinglePart" -> "PlayOggSongSinglePart"
      [] format = "Organya" -> "PlayOrganyaSong"

\* The music table has an entry for the id.
InMusicTable(song_id) == song_id \in 0..(MusicTableLen - 1)
\* This step is a play_song call for a song other than the current one.
IsPlayOther ==
    IsCall("play_song") /\ call'.song_id \notin {0, current_song_id}

\* C6: play_song for a non-zero id other than the current one, with no
\* candidate whose files are all present or with no name in the music
\* table, returns Ok, enqueues nothing and leaves current_song() and
\* prev_song_id unchanged.
C6_UnresolvableNoOp ==
    [][ (/\ IsPlayOther
         /\ \/ ~InMusicTable(call'.song_id)
            \/ \A p \in CandidatePrefixes(call'.env) :
                  ~SomePresent(call'.env, p))
        => /\ call'.ret = "Ok"
           /\ queue' = queue
           /\ current_song_id' = current_song_id
           /\ prev_song_id' = prev_song_id ]_vars

\* A song was playing and the files around the requested song made no
\* complete candidate: half of a dual pair, and files under an override
\* that is not configured.
C6_Witness ==
    /\ call.n = 2 /\ call.op = "play_song"
    /\ call.was = FirstSong /\ call.song_id = FirstSong + 1
    /\ current_song = FirstSong
    /\ ~call.env.override
    /\ DOMAIN call.env.files =
          {File("soundtrack", "intro"), File("override", "org")}

\* The format the claim expects for files that all sit under one prefix.
PreferredFormat(env, prefix) ==
    IF Present(env, prefix, "OggMultiPart") THEN "OggMultiPart"
    ELSE IF Present(env, prefix, "OggSinglePart") THEN "OggSinglePart"
    ELSE IF Present(env, prefix, "Organya") THEN "Organya"
    ELSE "None"

\* C8: when the files that exist are all decodable and all under one
\* prefix of the list, play_song sends, after save-state, the start
\* command of the dual format if intro and loop both exist, else of the
\* single format if the compressed file exists, else of the sequenced
\* format if the sequenced file exists, and sends nothing otherwise (so a
\* dual pair with one file missing is never selected).
C8_FormatPreference ==
    [][ \A p \in AllPrefixes :
          (/\ IsPlayOther /\ InMusicTable(call'.song_id)
           /\ p \in CandidatePrefixes(call'.env)
           /\ AllDecodable(call'.env)
           /\ \A f \in DOMAIN call'.env.files : f[1] = p)
          => IF PreferredFormat(call'.env, p) = "None"
             THEN queue' = queue
             ELSE /\ Len(queue') = Len(queue) + 2
                  /\ queue'[Len(queue) + 1] = MsgSaveState
                  /\ queue'[Len(queue) + 2].type
                        = StartType(PreferredFormat(call'.env, p))
                  /\ queue'[Len(queue) + 2].src = Src(call'.song_id, p) ]_vars

\* All four files existed under one prefix and the dual pair was started.
C8_Witness ==
    /\ call.n = 2 /\ call.op = "play_song" /\ call.song_id = FirstSong + 1
    /\ call.was = FirstSong
    /\ DOMAIN call.env.files = {"builtin"} \X FileKinds
    /\ AllDecodable(call.env)
    /\ queue # <<>>
    /\ queue[Len(queue)].type = "PlayOggSongMultiPart"

\* The first prefix of a list under which some format is complete.
RECURSIVE FirstPresent(_, _)
FirstPresent(env, order) ==
    IF order = <<>> THEN "none"
    ELSE IF Head(order) \in CandidatePrefixes(env) /\ SomePresent(env, Head(order))
         THEN Head(order)
         ELSE FirstPresent(env, Tail(order))

\* The copy started by a play_song call is the one under the first prefix
\* of order that has a complete candidate (all files decodable).
PlaysFirstOf(order) ==
    (/\ IsPlayOther /\ InMusicTable(call'.song_id)
     /\ AllDecodable(call'.env)
     /\ FirstPresent(call'.env, order) # "none")
    => /\ Len(queue') = Len(queue) + 2
       /\ queue'[Len(queue) + 2].src
             = Src(call'.song_id, FirstPresent(call'.env, order))

\* C9 as stated: the prefixes are tried in the order current soundtrack
\* directory, override, built-in paths.
C9_AsStated == [][PlaysFirstOf(<<"soundtrack", "override", "builtin">>)]_vars

\* C9, amended: the prefixes are tried in the order override (when the
\* named-soundtrack lookup has an entry), current soundtrack directory,
\* built-in paths; so a song that exists under both the override and the
\* current soundtrack directory is played from the override.
C9_PrefixOrder == [][PlaysFirstOf(<<"override", "soundtrack", "builtin">>)]_vars

\* The song existed under the soundtrack directory and under the override,
\* and a copy was started.
C9_Witness ==
    /\ call.n = 2 /\ call.op = "play_song" /\ call.song_id = FirstSong + 1
    /\ call.was = FirstSong
    /\ call.env.override
    /\ DOMAIN call.env.files = {File("soundtrack", "org"), File("override", "org")}
    /\ AllDecodable(call.env)
    /\ queue # <<>>
    /\ queue[Len(queue)].src = Src(FirstSong + 1, "override")

(***************************************************************************)
(* Specification of the channel: Sound Manager calls interleaved with the  *)
(* audio callback at the grain of single sends. A call that sends two      *)
(* messages has sent the first when the call step is taken and sends the   *)
(* second in a step of its own (SendNext); the callback can poll in        *)
(* between. run may fail before the first callback (the stream cannot be   *)
(* built or started), which drops the receiving end.                       *)
(***************************************************************************)
\* The messages the receiver can get: those sent and not yet received.
Visible == SubSeq(queue, 1, Len(queue) - inflight)

\* A Sound Manager call: its first send is made, the others are pending.
ChanCall ==
    /\ inflight = 0
    /\ LET new == SubSeq(queue', Len(queue) + 1, Len(queue'))
       IN /\ sent' = IF new = <<>> THEN sent
                     ELSE Append(sent, [msg |-> new[1], n |-> call'.n])
          /\ inflight' = IF new = <<>> THEN 0 ELSE Len(new) - 1
    /\ UNCHANGED <<done, drain_q0, drain_n, monVars, susVars, inputVars>>

\* self.tx.send(..)? of the second message of a play_song call
SendNext ==
    /\ inflight > 0
    /\ inflight' = inflight - 1
    /\ sent' = Append(sent, [msg |-> queue[Len(queue) - inflight + 1],
                             n |-> call.n])
    /\ UNCHANGED <<ctlVars, audVars, done, drain_q0, drain_n, monVars, susVars, inputVars>>

\* The callback is entered: the stream exists, so the receiver does.
ChanBegin ==
    /\ rx_alive
    /\ drain_q0' = Len(Visible)
    /\ drain_n' = 0
    /\ UNCHANGED <<inflight, sent, done, monVars, susVars, inputVars>>

\* rx.try_recv() returned a message and its handler ran.
ChanHandle ==
    /\ Len(queue) > inflight
    /\ done' = Append(done, Head(queue))
    /\ drain_n' = drain_n + 1
    /\ UNCHANGED <<inflight, sent, drain_q0, monVars, susVars, inputVars>>

\* rx.try_recv() returns Err while the second message of a call is not sent
\* yet: the drain ends as on an empty queue.
RecvErrInFlight ==
    /\ pc = "drain"
    /\ queue # <<>>
    /\ Len(queue) = inflight
    /\ pc' = "frames"
    /\ UNCHANGED <<ctlVars, frames_left, channels, state, saved_state, speed,
                   org_engine, ogg_engine, pixtone, bgm_buf, pxt_buf,
                   bgm_index, pxt_index, samples, frame, handled>>

\* build_output_stream(..)? or stream.play()? fails: run returns, the
\* closure and with it the receiver are dropped, no callback ever runs.
RunFails ==
    /\ rx_alive
    /\ pc = "idle" /\ frame = <<>> /\ done = <<>>
    /\ inflight = 0
    /\ rx_alive' = FALSE
    /\ UNCHANGED <<prev_song_id, current_song_id, queue, call, audVars>>

ChanEnvs == {NoEnv, Env(FilesOk({File("soundtrack", "org")}), FALSE)}
ChanSpeeds == {F32(2)}

ChanCallsLeft == call.n < MaxChanCalls

NextChan ==
    \/ \E id \in SfxIds : ChanCallsLeft /\ play_sfx(id) /\ ChanCall
    \/ \E song_id \in {0, FirstSong}, env \in ChanEnvs :
          ChanCallsLeft /\ play_song(song_id, env) /\ ChanCall
    \/ ChanCallsLeft /\ save_state /\ ChanCall
    \/ ChanCallsLeft /\ restore_state /\ ChanCall
    \/ \E f \in ChanSpeeds : ChanCallsLeft /\ set_speed(f) /\ ChanCall
    \/ SendNext
    \/ RunFails /\ UNCHANGED <<monVars, auxVars>>
    \/ \E nframes \in 1..MaxFrames : CallbackStart(nframes) /\ ChanBegin
    \/ \E n \in RenderCounts : HandlePlayOrganyaSong(n) /\ ChanHandle
    \/ HandlePlaySample /\ ChanHandle
    \/ HandleStop /\ ChanHandle
    \/ HandleSetSpeed /\ ChanHandle
    \/ HandleSaveState /\ ChanHandle
    \/ \E n \in RenderCounts : HandleRestoreState(n) /\ ChanHandle
    \/ RecvErr /\ UNCHANGED <<monVars, auxVars>>
    \/ RecvErrInFlight /\ UNCHANGED <<monVars, auxVars>>
    \/ FrameBuffered /\ UNCHANGED <<monVars, auxVars>>
    \/ \E n \in RenderCounts : FrameRender(n) /\ UNCHANGED <<monVars, auxVars>>

SpecChan == Init /\ [][NextChan]_vars

\* The messages of a history of sends.
Msgs(h) == [i \in 1..Len(h) |-> h[i].msg]
StartOrStop ==
    {"Stop", "PlayOrganyaSong", "PlayOggSongSinglePart", "PlayOggSongMultiPart"}

\* C11: the commands handled, followed by those still in the channel, are
\* the commands sent, in send order (so the handled ones are a prefix of
\* the sent ones and none is handled twice); and a start or stop command
\* that was handled was sent by the same call as the command handled just
\* before it, which is that call's save-state.
C11_SendOrder ==
    /\ rx_alive => done \o Visible = Msgs(sent)
    /\ Len(done) <= Len(sent)
    /\ \A i \in 1..Len(done) :
          /\ done[i] = sent[i].msg
          /\ done[i].type \in StartOrStop =>
                /\ i > 1
                /\ sent[i - 1].n = sent[i].n
                /\ done[i - 1] = MsgSaveState

\* The callback polled between the two sends of a play_song call, handled
\* the save-state, produced a frame, and handled the start command in a
\* later callback.
C11_Witness ==
    /\ Len(done) >= 2
    /\ done[Len(done)].type = "PlayOrganyaSong"
    /\ handled = "PlayOrganyaSong"
    /\ drain_n = 1
    /\ frame # <<>>

\* C12: play_sfx(id) returns without an error, also when the receiver is
\* gone, and leaves current_song_id and prev_song_id unchanged; handling
\* the play-effect command leaves PlaybackState, the snapshot, the read
\* cursor of the music buffer and its count of valid entries unchanged.
C12_SfxFireAndForget ==
    [][ /\ IsCall("play_sfx") =>
             /\ call'.ret = "Ok"
             /\ current_song_id' = current_song_id
             /\ prev_song_id' = prev_song_id
        /\ Handles("PlaySample") =>
             /\ state' = state
             /\ saved_state' = saved_state
             /\ bgm_index' = bgm_index
             /\ samples' = samples
             /\ pixtone'.sfx = Head(queue).id ]_vars

\* play_sfx was called after the receiver was dropped, with a song playing
\* according to the Sound Manager.
C12_Witness ==
    /\ call.op = "play_sfx" /\ ~rx_alive
    /\ call.ret = "Ok"
    /\ current_song # 0
    /\ queue = <<>>

\* The format of a snapshot kind.
KindFmt(kind) == IF kind = "Organya" THEN "org" ELSE "ogg"

\* C13: when restore-state is handled with a snapshot stored, the renderer
\* of the snapshot's kind holds the snapshot's song afterwards, the music
\* buffer is rendered from position 0 if the thread was Stopped and from
\* the snapshot's position if it was not, the read cursor is 0, and
\* PlaybackState is the Playing state of the snapshot's kind.
C13_RestoreOntoSilence ==
    [][ \A snap \in {saved_state}, cur \in {state} :
          (Handles("RestoreState") /\ snap.kind # "None")
          => /\ state' = StateOf(KindFmt(snap.kind))
             /\ bgm_index' = 0
             /\ IF cur = "Stopped"
                THEN RenderedFrom(KindFmt(snap.kind), snap.st, 0)'
                ELSE RenderedFrom(KindFmt(snap.kind), snap.st, snap.st.pos)' ]_vars

\* The snapshot of a song was restored after play_song(0) had stopped the
\* thread, and the buffer was rendered from the start of the song.
C13_Witness ==
    /\ handled = "RestoreState"
    /\ state = "PlayingOrg"
    /\ org_engine.pos = samples /\ samples > 0 /\ bgm_index = 0
    /\ call.op = "restore_state" /\ call.n = 3 /\ call.was = 0
    /\ current_song = FirstSong /\ prev_song_id = FirstSong

\* C14: after a restore-state command is handled no snapshot is stored;
\* and a restore-state handled when no snapshot is stored (as a second
\* restore-state with no save-state in between is) leaves the state of the
\* playback thread as it was: PlaybackState, both renderers, the music
\* buffer with its cursor and count, the speed, the effect mixer and its
\* buffer.
C14_RestoreConsumes ==
    [][ Handles("RestoreState") =>
          /\ saved_state'.kind = "None"
          /\ saved_state.kind = "None" =>
                /\ pc' = pc
                /\ <<state, org_engine, ogg_engine, bgm_buf, bgm_index,
                     samples, speed, pixtone, pxt_buf, pxt_index, frame>>'
                   = <<state, org_engine, ogg_engine, bgm_buf, bgm_index,
                       samples, speed, pixtone, pxt_buf, pxt_index, frame>> ]_vars

\* Two restore-state commands were handled one after the other in one
\* drain, the first with a snapshot stored: the song plays and no snapshot
\* is left.
C14_Witness ==
    /\ handled = "RestoreState" /\ pc = "drain"
    /\ Len(done) >= 3
    /\ done[Len(done) - 2].type = "SaveState"
    /\ done[Len(done) - 1].type = "RestoreState"
    /\ done[Len(done)].type = "RestoreState"
    /\ state = "PlayingOrg"
    /\ saved_state.kind = "None"

\* The place of a candidate in the order play_song tries them: prefix by
\* prefix (override, soundtrack directory, built-in), and inside a prefix
\* dual, single, sequenced.
PrefixRank(p) ==
    CASE p = "override" -> 1 [] p = "soundtrack" -> 2 [] p = "builtin" -> 3
FormatRank(format) ==
    CASE format = "OggMultiPart" -> 1 [] format = "OggSinglePart" -> 2
      [] format = "Organya" -> 3
Rank(c) == 3 * PrefixRank(c[1]) + FormatRank(c[2])
\* The candidates whose files all exist and all decode.
Usable(env) ==
    { c \in CandidatePrefixes(env) \X Formats :
        /\ Present(env, c[1], c[2])
        /\ \A k \in FormatKinds(c[2]) : env.files[File(c[1], k)] = "ok" }
First(cs) == CHOOSE c \in cs : \A d \in cs : Rank(c) <= Rank(d)

\* C15: a play_song call for a song of the music table other than the
\* current one returns Ok; when some candidate exists and decodes, the
\* call sends save-state and the start command of the first such
\* candidate in the order (candidates before it that are missing or fail
\* to decode are passed over) and sets prev_song_id to the song that was
\* current and current_song_id to the requested one; when none does, it
\* sends nothing and changes neither id.
C15_FirstUsableWins ==
    [][ (IsPlayOther /\ InMusicTable(call'.song_id)) =>
          /\ call'.ret = "Ok"
          /\ IF Usable(call'.env) = {}
             THEN /\ queue' = queue
                  /\ current_song_id' = current_song_id
                  /\ prev_song_id' = prev_song_id
             ELSE /\ Len(queue') = Len(queue) + 2
                  /\ SubSeq(queue', 1, Len(queue)) = queue
                  /\ queue'[Len(queue) + 1] = MsgSaveState
                  /\ queue'[Len(queue) + 2].type
                        = StartType(First(Usable(call'.env))[2])
                  /\ queue'[Len(queue) + 2].src
                        = Src(call'.song_id, First(Usable(call'.env))[1])
                  /\ current_song_id' = call'.song_id
                  /\ prev_song_id' = current_song_id ]_vars

\* Under the soundtrack directory the single compressed file did not
\* decode and the sequenced file did; a dual pair existed under the
\* built-in path: the sequenced file of the soundtrack directory was
\* started.
C15_Witness ==
    /\ call.n = 2 /\ call.op = "play_song" /\ call.song_id = FirstSong + 1
    /\ call.was = FirstSong
    /\ DOMAIN call.env.files =
          {File("soundtrack", "ogg"), File("soundtrack", "org"),
           File("builtin", "intro"), File("builtin", "loop")}
    /\ call.env.files[File("soundtrack", "ogg")] = "corrupt"
    /\ \A f \in DOMAIN call.env.files \ {File("soundtrack", "ogg")} :
          call.env.files[f] = "ok"
    /\ queue # <<>>
    /\ queue[Len(queue)] = MsgPlayOrganyaSong(Src(FirstSong + 1, "soundtrack"))
    /\ current_song = FirstSong + 1 /\ prev_song_id = FirstSong

(***************************************************************************)
(* Specification of the mix: the thread has just handled the start of a    *)
(* streamed song whose renderer filled the music buffer; the first pair of *)
(* the buffer and the first entry of the effect buffer are any of          *)
(* SampleInputs. The callback then produces frames.                        *)
(***************************************************************************)
SampleInputs == {0, 1, 16384, 32767, 32768, 32769, 49152, 65534, 65535}
MixSrc == Src(FirstSong, "builtin")
MixEnv == Env(FilesOk({File("builtin", "ogg")}), FALSE)

InitMix ==
    /\ prev_song_id = 0
    /\ current_song_id = FirstSong
    /\ queue = <<>>
    /\ rx_alive = TRUE
    /\ call = [NoCall EXCEPT !.n = 1, !.op = "play_song",
                             !.song_id = FirstSong, !.env = MixEnv]
    /\ pc = "drain"
    /\ frames_left = 1
    /\ channels \in {1, 2}
    /\ state = "PlayingOgg"
    /\ saved_state = SavedNone
    /\ speed = F32(1)
    /\ org_engine = NewEngine
    /\ ogg_engine = RenderAdvance(StartEngine(NewEngine, MixSrc, FALSE), BufLen)
    /\ pixtone = NewPixTone
    /\ \E l \in SampleInputs, r \in SampleInputs :
          bgm_buf = [i \in 1..BufLen |->
                        IF i = 1 THEN l ELSE IF i = 2 THEN r ELSE FillOgg]
    /\ \E p \in SampleInputs :
          pxt_buf = [i \in 1..BufSize |-> IF i = 1 THEN p ELSE MidScale]
    /\ bgm_index = 0
    /\ pxt_index = 0
    /\ samples = BufLen
    /\ frame = <<>>
    /\ handled = "PlayOggSongSinglePart"
    /\ script = ScriptStart
    /\ ovr = OvrIdle
    /\ inflight = 0
    /\ sent = << [msg |-> MsgSaveState, n |-> 1],
                 [msg |-> MsgPlayOggSongSinglePart(MixSrc), n |-> 1] >>
    /\ done = <<MsgSaveState, MsgPlayOggSongSinglePart(MixSrc)>>
    /\ drain_q0 = 2
    /\ drain_n = 2
    /\ suspended = FALSE
    /\ loop_saved_state = TRUE
    /\ paused = FALSE
    /\ polled = "none"
    /\ gamepad = NewGamepad
    /\ pad_hist = NewPadHist
    /\ controllers = <<>>
    /\ answer = NoAnswer

NextMix ==
    \/ \E nframes \in 1..MaxFrames :
          CallbackStart(nframes) /\ UNCHANGED <<monVars, auxVars>>
    \/ RecvErr /\ UNCHANGED <<monVars, auxVars>>
    \/ FrameBuffered /\ UNCHANGED <<monVars, auxVars>>
    \/ \E n \in RenderCounts : FrameRender(n) /\ UNCHANGED <<monVars, auxVars>>

SpecMix == InitMix /\ [][NextMix]_vars

\* This step produces a frame from the pair under the cursor of a streamed
\* song.
StreamedFrame ==
    /\ pc = "frames" /\ frames_left' = frames_left - 1
    /\ state = "PlayingOgg" /\ bgm_index < samples

\* The sum of the centred values of b and p, limited to lo..32767, biased
\* again.
SatSum(b, p, lo) ==
    LET x == (b - 32768) + (p - 32768)
    IN (IF x < lo THEN lo ELSE IF x > 32767 THEN 32767 ELSE x) + 32768

\* C16 as stated: each channel of a stereo frame is the sum of the centred
\* background and effect samples clamped to -32768..32767 and biased again.
C16_AsStated ==
    [][ (StreamedFrame /\ channels = 2) =>
          /\ frame'[1] = SatSum(bgm_buf[bgm_index + 1], pxt_buf[pxt_index + 1],
                                -32768)
          /\ frame'[2] = SatSum(bgm_buf[bgm_index + 2], pxt_buf[pxt_index + 1],
                                -32768) ]_vars

\* C16, amended: each channel of a stereo frame is the sum of the centred
\* background and effect samples clamped to -32767..32767 and biased
\* again; the most negative value of the signed 16-bit range is never
\* produced (the output is never 0), so a background sample at the bottom
\* of the range comes out as 1 when the effect sample is silent.
C16_StereoClamp ==
    [][ (StreamedFrame /\ channels = 2) =>
          /\ frame'[1] = SatSum(bgm_buf[bgm_index + 1], pxt_buf[pxt_index + 1],
                                -32767)
          /\ frame'[2] = SatSum(bgm_buf[bgm_index + 2], pxt_buf[pxt_index + 1],
                                -32767)
          /\ frame'[1] # 0 /\ frame'[2] # 0 ]_vars

\* A stereo frame was produced from a left sample at the bottom of the
\* range and came out as 1 on the left and at the top on the right.
C16_Witness ==
    /\ channels = 2 /\ bgm_index = 2 /\ handled = "none"
    /\ bgm_buf[1] = 0 /\ bgm_buf[2] = 65535
    /\ frame = <<1, 65535>>

\* i16 division by 2 of the exact sum of two centred values.
HalfSum(l, r) ==
    LET x == (l - 32768) + (r - 32768)
    IN IF x >= 0 THEN x \div 2 ELSE -((-x) \div 2)

\* C17 as stated: a mono frame is produced without a failure of the 16-bit
\* addition, and it is the clamped, biased sum of the effect sample and
\* the average of the two centred background samples.
C17_MonoAverage ==
    [][ (StreamedFrame /\ channels = 1) =>
          /\ pc' # "panicked"
          /\ LET x == HalfSum(bgm_buf[bgm_index + 1], bgm_buf[bgm_index + 2])
                        + (pxt_buf[pxt_index + 1] - 32768)
             IN frame'[1] = (IF x < -32767 THEN -32767
                             ELSE IF x > 32767 THEN 32767 ELSE x) + 32768 ]_vars

(***************************************************************************)
(* Specification of the suspend loop: the application sets and clears the  *)
(* process-wide suspend flag, run polls it, and the hardware stream calls  *)
(* the playback closure while it is not paused.                            *)
(***************************************************************************)
\* The application writes *GAME_SUSPENDED.lock().unwrap() = b.
SetSuspended(b) ==
    /\ suspended # b
    /\ suspended' = b
    /\ UNCHANGED <<ctlVars, audVars, monVars, chanVars, inputVars,
                   loop_saved_state,
                   paused, polled>>

\* One iteration of the loop of run after the sleep; ok says whether
\* stream.pause() or stream.play(), if called, succeeds.
Poll(ok) ==
    /\ rx_alive
    /\ polled' = IF suspended THEN "suspended" ELSE "running"
    /\ IF loop_saved_state # suspended
       THEN /\ loop_saved_state' = suspended
            /\ paused' = IF ok THEN suspended ELSE paused
       ELSE UNCHANGED <<loop_saved_state, paused>>
    /\ UNCHANGED <<ctlVars, audVars, monVars, chanVars, inputVars, suspended>>

SusEnvs == {Env(FilesOk({File("soundtrack", "org")}), FALSE)}
SusCallsLeft == call.n < 2
SusOther == UNCHANGED <<monVars, auxVars>>

NextSuspend ==
    \/ \E b \in BOOLEAN : SetSuspended(b)
    \/ \E ok \in BOOLEAN : Poll(ok)
    \/ \E song_id \in {0, FirstSong}, env \in SusEnvs :
          SusCallsLeft /\ play_song(song_id, env) /\ SusOther
    \/ \E nframes \in 1..MaxFrames :
          ~paused /\ CallbackStart(nframes) /\ SusOther
    \/ \E n \in RenderCounts : HandlePlayOrganyaSong(n) /\ SusOther
    \/ HandleStop /\ SusOther
    \/ HandleSaveState /\ SusOther
    \/ RecvErr /\ SusOther
    \/ FrameBuffered /\ SusOther
    \/ \E n \in RenderCounts : FrameRender(n) /\ SusOther

SpecSuspend == Init /\ [][NextSuspend]_vars

\* C18 as stated: from the first poll on, the stream is paused exactly
\* when the flag value read in the last poll was true; and a poll changes
\* nothing of the playback closure's state.
C18_StreamFollowsFlag ==
    /\ [](polled # "none" => (paused <=> polled = "suspended"))
    /\ [][polled' # polled => UNCHANGED audVars]_vars

\* C19 as stated: the number of commands handled in a callback is at most
\* the number of commands that were in the channel when the callback
\* began.
C19_DrainBounded == drain_n <= drain_q0

\* C20 as stated: handling a set-speed command never fails the assertion,
\* because every set-speed command in the channel carries a factor above
\* zero.
C20_SetSpeedNeverPanics ==
    /\ \A i \in 1..Len(queue) :
          queue[i].type = "SetSpeed" => Positive(queue[i].speed)
    /\ handled = "SetSpeed" => pc # "panicked"

(***************************************************************************)
(* Ownership of the music buffer.                                          *)
(***************************************************************************)
\* The valid part of bgm_buf is what the renderer of format fmt wrote in
\* its last render_to: the entries of its song that end where it stands.
OwnedBy(fmt) ==
    \A i \in 1..samples :
       bgm_buf[i] = Wave(fmt, EngineOf(fmt),
                         (EngineOf(fmt).pos + SongLen - samples + i - 1) % SongLen)

\* The format whose renderer a Playing state names.
FmtOfState(st) == IF st = "PlayingOrg" THEN "org" ELSE "ogg"

\* The command being handled sets a Playing state: a start command, or a
\* restore-state with a snapshot stored.
EntersPlaying ==
    \/ Handles("PlayOrganyaSong")
    \/ Handles("PlayOggSongSinglePart")
    \/ Handles("PlayOggSongMultiPart")
    \/ Handles("RestoreState") /\ saved_state.kind # "None"

\* The renderer and the song a start command names.
StartFmt(m) == IF m.type = "PlayOrganyaSong" THEN "org" ELSE "ogg"
StartSnap(m) ==
    [src |-> m.src, multi |-> m.type = "PlayOggSongMultiPart", pos |-> 0]

\* C21: whenever PlaybackState is a Playing state, the valid part of the
\* music buffer was written by the renderer that state names, in its last
\* render; every command that sets a Playing state renders the buffer with
\* the renderer of the new state (a start command from the beginning of
\* its song) and puts the cursor at 0; and a frame taken while Stopped
\* renders nothing, leaves both renderers, the buffer, its cursor and its
\* count alone, and does not panic.
C21_StateOwnsBuffer ==
    /\ [](Playing => OwnedBy(FmtOfState(state)))
    /\ [][ /\ EntersPlaying =>
                /\ bgm_index' = 0
                /\ \/ state' = "PlayingOrg" /\ OwnedBy("org")'
                   \/ state' = "PlayingOgg" /\ OwnedBy("ogg")'
                /\ \A m \in {Head(queue)} :
                      m.type # "RestoreState" =>
                         /\ state' = StateOf(StartFmt(m))
                         /\ RenderedFrom(StartFmt(m), StartSnap(m), 0)'
           /\ (pc = "frames" /\ state = "Stopped"
                  /\ frames_left' # frames_left) =>
                /\ pc' # "panicked"
                /\ UNCHANGED <<state, org_engine, ogg_engine, bgm_buf,
                               bgm_index, samples>> ]_vars

\* A streamed song was started over a playing sequenced song: the buffer
\* holds streamed entries, while the sequenced renderer stands elsewhere.
C21_Witness ==
    /\ state = "PlayingOgg"
    /\ handled \in {"PlayOggSongSinglePart", "PlayOggSongMultiPart"}
    /\ samples = BufLen
    /\ org_engine.src # NoSrc /\ org_engine.pos # ogg_engine.pos
    /\ OwnedBy("ogg") /\ ~OwnedBy("org")

\* The call made in this step returned the error of a failed send.
SendFailed == call'.n = call.n + 1 /\ call'.ret = "SendError"

\* C23 as stated: a play_song, save_state, restore_state or set_speed call
\* that returns the error of a failed send leaves current_song_id and
\* prev_song_id as they were before the call.
C23_SendErrorKeepsIds ==
    [][ (SendFailed /\ call'.op \in {"play_song", "save_state",
                                       "restore_state", "set_speed"})
        => /\ current_song_id' = current_song_id
           /\ prev_song_id' = prev_song_id ]_vars

\* C24: whenever a start command or a stop command is handled while
\* PlaybackState is Stopped, no snapshot is stored at that moment, and the
\* command handled just before was a save-state; so the branch that clears
\* the snapshot never discards one.
C24_ClearingUnobservable ==
    [][ ((\E t \in StartOrStop : Handles(t)) /\ state = "Stopped")
        => /\ saved_state = SavedNone
           /\ done # <<>> /\ done[Len(done)] = MsgSaveState
           /\ ClearStale(state, saved_state) = saved_state ]_vars

\* A song was started, then stopped by play_song(0), which left the
\* snapshot of the song stored on a Stopped thread; the next play_song
\* replaced it by its own save-state before its start command was handled.
C24_Witness ==
    /\ handled = "PlayOrganyaSong" /\ state = "PlayingOrg"
    /\ saved_state = SavedNone
    /\ Len(done) >= 5
    /\ done[Len(done)].type = "PlayOrganyaSong"
    /\ done[Len(done) - 1] = MsgSaveState
    /\ done[Len(done) - 2] = MsgStop
    /\ done[Len(done) - 3] = MsgSaveState
    /\ done[Len(done) - 4].type = "PlayOrganyaSong"

(***************************************************************************)
(* Indices of the music buffer, counted from 0 as in the code.             *)
(***************************************************************************)
\* The entries one frame takes from the buffer: one of a sequenced song,
\* a pair of a streamed song.
EntriesPerFrame(st) == IF st = "PlayingOgg" THEN 2 ELSE 1

\* The largest index the next frame reads: from the cursor on when the
\* cursor is inside the valid part, from 0 on after a render.
LastReadIndex ==
    (IF bgm_index < samples THEN bgm_index ELSE 0) + EntriesPerFrame(state) - 1

\* C25: with render counts between 0 and the length of the buffer, the
\* count of valid entries (the range every fill covers) is inside the
\* buffer, every index the frame loop reads while a song plays is below
\* the length of the buffer, and the cursor is even while a streamed song
\* plays.
C25_CursorInBounds ==
    /\ 0 <= samples /\ samples <= BufLen
    /\ 0 <= bgm_index
    /\ Playing => LastReadIndex < BufLen
    /\ state = "PlayingOgg" => bgm_index % 2 = 0

\* The streamed renderer returned an odd count and the frame loop took the
\* pair that starts at the last valid entry: the cursor is past the count.
C25_Witness ==
    /\ state = "PlayingOgg"
    /\ samples % 2 = 1
    /\ bgm_index = samples + 1
    /\ frame # <<>> /\ handled = "none"

(***************************************************************************)
(* Specification of the combined controller: children are added one by     *)
(* one, up to MaxChildren, and the combination is queried.                 *)
(***************************************************************************)
NextCombined ==
    \/ \E controller \in Children :
          Len(controllers) < MaxChildren /\ add(controller)
    \/ Ask

SpecCombined == Init /\ [][NextCombined]_vars

\* The sum of the answers of all children to an axis query.
RECURSIVE Total(_, _)
Total(q, cs) ==
    IF Len(cs) = 0 THEN 0
    ELSE Total(q, SubSeq(cs, 1, Len(cs) - 1)) + cs[Len(cs)][q]

\* x limited to -1..1
Limit(x) == IF x <= -1 THEN -1 ELSE IF x >= 1 THEN 1 ELSE x

\* C22: the answer of the combination to a boolean query, held state or
\* trigger edge, is true exactly if some child answers true, and its
\* answer to an axis query is the sum of the children's answers limited to
\* -1..1; with no children the answers are false and 0.
C22_FanIn ==
    answer.asked =>
       /\ answer.jump <=> \E i \in 1..Len(controllers) : controllers[i].jump
       /\ answer.trigger_jump
            <=> \E i \in 1..Len(controllers) : controllers[i].trigger_jump
       /\ answer.move_analog_x = Limit(Total("move_analog_x", controllers))
       /\ answer.move_analog_y = Limit(Total("move_analog_y", controllers))
       /\ controllers = <<>> =>
             /\ ~answer.jump /\ ~answer.trigger_jump
             /\ answer.move_analog_x = 0 /\ answer.move_analog_y = 0

\* Two children: only the second holds jump, both push the x axis to the
\* right, and they push the y axis in opposite directions.
C22_Witness ==
    /\ answer.asked
    /\ Len(controllers) = 2
    /\ ~controllers[1].jump /\ controllers[2].jump /\ answer.jump
    /\ ~answer.trigger_jump
    /\ controllers[1].move_analog_x = 1 /\ controllers[2].move_analog_x = 1
    /\ answer.move_analog_x = 1
    /\ controllers[1].move_analog_y = -1 /\ controllers[2].move_analog_y = 1
    /\ answer.move_analog_y = 0

(***************************************************************************)
(* Specification of the gamepad controller: update, update_trigger and     *)
(* set_state in any order.                                                 *)
(***************************************************************************)
NextGamepad ==
    \/ \E buttons \in KeyStates : update(buttons)
    \/ update_trigger
    \/ \E s \in KeyStates, o \in KeyStates, t \in KeyStates : set_state(s, o, t)

SpecGamepad == Init /\ [][NextGamepad]_vars

\* Bit b of a KeyState.
Bit(ks, b) == (ks \div (2 ^ b)) % 2 = 1

\* This step is a call of op on the gamepad.
PadCall(op) == pad_hist'.tick # pad_hist.tick /\ pad_hist'.op = op

\* C26: after update_trigger a trigger bit is set exactly if the button
\* bit is set in state and was not set in old_state before the call, and
\* old_state equals state, which the call does not change; so, as long as
\* set_state does not intervene, a trigger bit is set exactly if the button
\* is down now and was not down at the previous update_trigger (a button
\* held across several calls raises its trigger at the first of them
\* only), and an update_trigger made with state as it was at the previous
\* one leaves all trigger bits clear.
C26_RisingEdges ==
    [][ PadCall("update_trigger") =>
          /\ \A b \in Buttons :
                Bit(gamepad'.trigger, b)
                   <=> (Bit(gamepad.state, b) /\ ~Bit(gamepad.old_state, b))
          /\ gamepad'.state = gamepad.state
          /\ gamepad'.old_state = gamepad'.state
          /\ pad_hist.fresh =>
                \A b \in Buttons :
                   Bit(gamepad'.trigger, b)
                      <=> (Bit(gamepad.state, b) /\ ~Bit(pad_hist.prev, b))
          /\ (pad_hist.fresh /\ gamepad.state = pad_hist.prev) =>
                gamepad'.trigger = 0 ]_vars

\* Button 0 was down at two update_trigger calls in a row and button 1
\* only at the second: after the second, the trigger of button 1 is set
\* and that of button 0 is clear.
C26_Witness ==
    /\ pad_hist.op = "update_trigger" /\ pad_hist.fresh
    /\ Bit(gamepad.state, 0) /\ Bit(gamepad.state, 1)
    /\ Bit(pad_hist.prev, 0)
    /\ ~Bit(gamepad.trigger, 0) /\ Bit(gamepad.trigger, 1)
    /\ gamepad.old_state = gamepad.state

====
